---------------------------- MODULE Spec2Model ----------------------------
(***************************************************************************)
(* Model of the weather analytics pipeline:                                *)
(*   - the ingest handler (extract/ingest_weather_data.py, config.py),     *)
(*   - the raw key codec (utils/s3_client.py, utils/s3_utils.py),          *)
(*   - the incremental-transform planner (utils/s3_utils.py),              *)
(*   - the bulk transform step (transform/process_weather_data.py).        *)
(* Strings are sequences of one-character strings, so that the key         *)
(* formatting, splitting and parsing of the code are computed, not assumed.*)
(***************************************************************************)
EXTENDS Integers, Sequences, FiniteSets, TLC

VARIABLES
    \* object stores (the set of keys held by each bucket)
    rawStore, procStore,
    \* planner / transform run
    max_days, fault, pc, plan, firstPlan, bulkOut,
    \* ingest handler (lambda_handler)
    env, event, hpc, config, jobs, job_index, city_index, job_success,
    total_success, attempts, fetched, puts, warned, response,
    \* earlier invocations of the handler (not program state)
    history,
    \* key codec round trip
    city_name, key_hour, s3_key, decoded,
    \* hour validation
    hourIn, hourOut, parseOut

storeVars == <<rawStore, procStore>>
plannerVars == <<max_days, fault, pc, plan, firstPlan, bulkOut>>
ingestVars == <<env, event, hpc, config, jobs, job_index, city_index, job_success,
                total_success, attempts, fetched, puts, warned, response, history>>
codecVars == <<city_name, key_hour, s3_key, decoded>>
hourVars == <<hourIn, hourOut, parseOut>>
vars == <<storeVars, plannerVars, ingestVars, codecVars, hourVars>>

\* the value of a variable that holds no result yet
NoRec == [kind |-> "none"]

-----------------------------------------------------------------------------
(* Python string primitives over sequences of characters.                  *)

\* characters in ascending code point order (rank stands for the code point)
AsciiOrder ==
    <<" ","+",",","-",".","/","0","1","2","3","4","5","6","7","8","9",":","=",
      "A","B","C","D","E","F","G","H","I","J","K","L","M","N","O","P","Q","R",
      "S","T","U","V","W","X","Y","Z","_",
      "a","b","c","d","e","f","g","h","i","j","k","l","m","n","o","p","q","r",
      "s","t","u","v","w","x","y","z">>

Chars == {AsciiOrder[i] : i \in DOMAIN AsciiOrder}

Ord == [c \in Chars |-> CHOOSE i \in DOMAIN AsciiOrder : AsciiOrder[i] = c]

UpperCase ==
    <<"A","B","C","D","E","F","G","H","I","J","K","L","M","N","O","P","Q","R",
      "S","T","U","V","W","X","Y","Z">>

LowerCase ==
    <<"a","b","c","d","e","f","g","h","i","j","k","l","m","n","o","p","q","r",
      "s","t","u","v","w","x","y","z">>

Digits == <<"0","1","2","3","4","5","6","7","8","9">>

DigitSet == {Digits[i] : i \in DOMAIN Digits}

DigitVal == [c \in DigitSet |-> (CHOOSE i \in DOMAIN Digits : Digits[i] = c) - 1]

Whitespace == {" "}

\* str.lower() on one character
LowerChar(c) ==
    IF \E i \in DOMAIN UpperCase : UpperCase[i] = c
    THEN LowerCase[CHOOSE i \in DOMAIN UpperCase : UpperCase[i] = c]
    ELSE c

\* str.lower()
Lower(s) == [i \in DOMAIN s |-> LowerChar(s[i])]

\* str.replace(a, b) for one-character a and b
ReplaceChar(s, a, b) == [i \in DOMAIN s |-> IF s[i] = a THEN b ELSE s[i]]

\* str.startswith / str.endswith
StartsWith(s, p) == Len(s) >= Len(p) /\ SubSeq(s, 1, Len(p)) = p

EndsWith(s, p) == Len(s) >= Len(p) /\ SubSeq(s, Len(s) - Len(p) + 1, Len(s)) = p

\* 1-based position of the first occurrence of p in s at or after i, 0 when
\* there is none
RECURSIVE FindFrom(_, _, _)
FindFrom(s, p, i) ==
    IF i + Len(p) - 1 > Len(s) THEN 0
    ELSE IF \A j \in 1..Len(p) : s[i + j - 1] = p[j] THEN i
    ELSE FindFrom(s, p, i + 1)

\* str.find(p) + 1
Find(s, p) == FindFrom(s, p, 1)

\* the "in" operator on strings
Contains(s, p) == Find(s, p) # 0

\* str.split(sep) for a non-empty separator
RECURSIVE Split(_, _)
Split(s, sep) ==
    LET i == Find(s, sep)
    IN  IF i = 0 THEN <<s>>
        ELSE <<SubSeq(s, 1, i - 1)>> \o Split(SubSeq(s, i + Len(sep), Len(s)), sep)

\* sep.join(parts)
RECURSIVE Join(_, _)
Join(parts, sep) ==
    IF Len(parts) = 0 THEN <<>>
    ELSE IF Len(parts) = 1 THEN parts[1]
    ELSE parts[1] \o sep \o Join(Tail(parts), sep)

\* str.rstrip(chars) / str.lstrip(chars) / str.strip(chars)
RECURSIVE RStrip(_, _)
RStrip(s, cs) ==
    IF Len(s) > 0 /\ s[Len(s)] \in cs THEN RStrip(SubSeq(s, 1, Len(s) - 1), cs) ELSE s

RECURSIVE LStrip(_, _)
LStrip(s, cs) ==
    IF Len(s) > 0 /\ s[1] \in cs THEN LStrip(Tail(s), cs) ELSE s

Strip(s, cs) == LStrip(RStrip(s, cs), cs)

\* the order of str comparison (and of sorted() on strings), from index i on
RECURSIVE StrLessFrom(_, _, _)
StrLessFrom(a, b, i) ==
    IF i > Len(a) THEN i <= Len(b)
    ELSE IF i > Len(b) THEN FALSE
    ELSE IF a[i] = b[i] THEN StrLessFrom(a, b, i + 1)
    ELSE Ord[a[i]] < Ord[b[i]]

StrLess(a, b) == StrLessFrom(a, b, 1)

\* the elements of a finite set of strings in ascending order
RECURSIVE SortedAsc(_)
SortedAsc(S) ==
    IF S = {} THEN <<>>
    ELSE LET m == CHOOSE x \in S : \A y \in S \ {x} : StrLess(x, y)
         IN  <<m>> \o SortedAsc(S \ {m})

\* reversed order: sorted(S, reverse=True)
RECURSIVE SortedDesc(_)
SortedDesc(S) ==
    IF S = {} THEN <<>>
    ELSE LET m == CHOOSE x \in S : \A y \in S \ {x} : StrLess(y, x)
         IN  <<m>> \o SortedDesc(S \ {m})

\* value of a run of decimal digits
RECURSIVE DigitsValue(_)
DigitsValue(s) ==
    IF Len(s) = 0 THEN 0
    ELSE 10 * DigitsValue(SubSeq(s, 1, Len(s) - 1)) + DigitVal[s[Len(s)]]

\* digits, with single underscores allowed between digits (int() literal rule)
IsDigitGroups(s) ==
    /\ Len(s) > 0
    /\ \A i \in DOMAIN s : s[i] \in DigitSet \/ s[i] = "_"
    /\ s[1] # "_" /\ s[Len(s)] # "_"
    /\ \A i \in 1..(Len(s) - 1) : ~(s[i] = "_" /\ s[i + 1] = "_")

\* int(<str>): surrounding whitespace, an optional sign, decimal digits;
\* anything else raises ValueError
PyIntStr(s) ==
    LET t == Strip(s, Whitespace)
        signed == Len(t) > 0 /\ t[1] \in {"+", "-"}
        body == IF signed THEN Tail(t) ELSE t
        mag == DigitsValue(SelectSeq(body, LAMBDA c : c # "_"))
    IN  IF IsDigitGroups(body)
        THEN [ok |-> TRUE, v |-> IF signed /\ t[1] = "-" THEN 0 - mag ELSE mag]
        ELSE [ok |-> FALSE, exc |-> "ValueError"]

\* str(n) for n >= 0
RECURSIVE DecStr(_)
DecStr(n) ==
    IF n < 10 THEN <<Digits[n + 1]>> ELSE DecStr(n \div 10) \o <<Digits[(n % 10) + 1]>>

\* format(n, "02d"): sign-aware zero padding to width 2
Fmt02d(n) ==
    IF n < 0 THEN <<"-">> \o DecStr(0 - n)
    ELSE IF n < 10 THEN <<"0">> \o DecStr(n)
    ELSE DecStr(n)

-----------------------------------------------------------------------------
(* Key codec.                                                              *)

HISTORICAL_DT ==
    <<"h","i","s","t","o","r","i","c","a","l","/","d","t","=">>

DOT_JSON == <<".","j","s","o","n">>

\* city_id = city_name.lower().replace(' ', '_')
CityIdWrongCase(name) == ReplaceChar(name, " ", "_")

CityId(name) == ReplaceChar(Lower(name), " ", "_")

\* key mutant: the hour is written without padding
build_s3_key_unpadded(city_id, target_date, target_hour) ==
    HISTORICAL_DT \o target_date \o <<"/">> \o city_id \o <<"_">>
        \o DecStr(target_hour) \o DOT_JSON

\* f"historical/dt={target_date}/{city_id}_{key_hour:02d}.json"
build_s3_key(city_id, date, hour) ==
    HISTORICAL_DT \o date \o <<"/">> \o city_id \o <<"_">> \o Fmt02d(hour) \o DOT_JSON

\* filename = raw_file.split('/')[-1]
FileName(raw_file) ==
    LET parts == Split(raw_file, <<"/">>) IN parts[Len(parts)]

\* decoding mutant: the city id is the first underscore-delimited part only
DecodeFirstPartOnly(raw_file) ==
    LET filename == FileName(raw_file)
        parts == Split(SubSeq(filename, 1, Len(filename) - 5), <<"_">>)
    IN  IF ~EndsWith(filename, DOT_JSON) \/ Len(parts) < 2
        THEN [kind |-> "skip"]
        ELSE IF PyIntStr(parts[Len(parts)]).ok
             THEN [kind |-> "unit", city_id |-> parts[1],
                   hour |-> PyIntStr(parts[Len(parts)]).v]
             ELSE [kind |-> "invalid"]

\* the planner's decoding of one raw key into (city_id, hour):
\*   "unit"    : decoded
\*   "invalid" : int() raised ValueError (logged, skipped)
\*   "skip"    : not a .json name, or fewer than two parts (silently skipped)
DecodeRaw(raw_file) ==
    LET filename == FileName(raw_file)
        base_name == SubSeq(filename, 1, Len(filename) - 5)
        parts == Split(base_name, <<"_">>)
        hour_value == PyIntStr(parts[Len(parts)])
    IN  IF ~EndsWith(filename, DOT_JSON) THEN [kind |-> "skip"]
        ELSE IF Len(parts) < 2 THEN [kind |-> "skip"]
        ELSE IF ~hour_value.ok THEN [kind |-> "invalid"]
        ELSE [kind |-> "unit",
              city_id |-> Join(SubSeq(parts, 1, Len(parts) - 1), <<"_">>),
              hour |-> hour_value.v]


-----------------------------------------------------------------------------
(* Values that stand for "not in use" in a specification that does not     *)
(* exercise a part of the program.                                         *)

IdleStores == rawStore = {} /\ procStore = {}

IdlePlanner ==
    /\ max_days = 0 /\ fault = [op |-> "none", date |-> <<>>, arg |-> <<>>] /\ pc = "idle"
    /\ plan = NoRec /\ firstPlan = NoRec /\ bulkOut = NoRec

IdleIngest ==
    /\ env = NoRec /\ event = NoRec /\ hpc = "idle" /\ config = NoRec /\ jobs = <<>>
    /\ job_index = 0 /\ city_index = 0 /\ job_success = 0 /\ total_success = 0
    /\ attempts = <<>> /\ fetched = <<>> /\ puts = <<>> /\ warned = FALSE
    /\ response = NoRec /\ history = NoRec

IdleCodec == city_name = <<>> /\ key_hour = 0 /\ s3_key = <<>> /\ decoded = NoRec

IdleHour == hourIn = NoRec /\ hourOut = NoRec /\ parseOut = NoRec

-----------------------------------------------------------------------------
(* Key codec round trip: process_city builds the key, the planner decodes.  *)

\* longest city name drawn
MaxCityLen == 3

CityAlphabet == {"A", "b", " ", "_", "/"}

RECURSIVE StringsUpTo(_, _)
StringsUpTo(alphabet, n) ==
    IF n = 0 THEN {<<>>}
    ELSE LET shorter == StringsUpTo(alphabet, n - 1)
         IN  shorter \cup {Append(s, c) : s \in shorter, c \in alphabet}

\* Config._parse_cities keeps the stripped, non-empty, comma-free names
CityNames ==
    {s \in StringsUpTo(CityAlphabet, MaxCityLen) :
        Len(s) > 0 /\ Strip(s, Whitespace) = s}

D_0115 == <<"2","0","2","4","-","0","1","-","1","5">>

CodecInit ==
    /\ city_name \in CityNames
    /\ key_hour \in 0..23
    /\ s3_key = <<>> /\ decoded = NoRec
    /\ IdleStores /\ IdlePlanner /\ IdleIngest /\ IdleHour

\* process_city: city_id derivation and build_s3_key
CodecEncode ==
    /\ s3_key = <<>>
    /\ s3_key' = build_s3_key(CityId(city_name), D_0115, key_hour)
    /\ UNCHANGED <<city_name, key_hour, decoded>>
    /\ UNCHANGED <<storeVars, plannerVars, ingestVars, hourVars>>

\* the planner's filename decoding applied to that key
CodecDecode ==
    /\ s3_key # <<>> /\ decoded = NoRec
    /\ decoded' = DecodeRaw(s3_key)
    /\ UNCHANGED <<city_name, key_hour, s3_key>>
    /\ UNCHANGED <<storeVars, plannerVars, ingestVars, hourVars>>

CodecNext == CodecEncode \/ CodecDecode

SpecCodec == CodecInit /\ [][CodecNext]_vars

\* C6 (as stated): for every city identifier and every hour in 0..23 the
\* planner's decoding of the built key returns exactly (city_id, hour).
C6_RoundTripEveryCityId ==
    decoded.kind # "none" =>
        decoded = [kind |-> "unit", city_id |-> CityId(city_name), hour |-> key_hour]

\* C6 (amended): the round trip is exact for every city identifier that
\* contains no "/" (underscores included) and every hour in 0..23.
C6_RoundTripNoSlash ==
    (decoded.kind # "none" /\ ~Contains(CityId(city_name), <<"/">>)) =>
        decoded = [kind |-> "unit", city_id |-> CityId(city_name), hour |-> key_hour]

\* a city name with a space (an underscore in its id) and a one-digit hour,
\* encoded and decoded back exactly
C6_Witness ==
    /\ decoded.kind # "none"
    /\ city_name = <<"A", " ", "b">>
    /\ key_hour = 7
    /\ decoded.kind = "unit" /\ decoded.hour = 7
    /\ decoded.city_id = CityId(city_name)
    /\ Contains(decoded.city_id, <<"_">>)

-----------------------------------------------------------------------------
(* Hour validation and event parsing (extract/ingest_weather_data.py).      *)
(* A JSON value is a record: [kind |-> "int", v], [kind |-> "bool", b],     *)
(* [kind |-> "float", tenths] (the finite float tenths/10), [kind |-> "inf"],*)
(* [kind |-> "nan"], [kind |-> "str", s], [kind |-> "null"], [kind |-> "list"].*)

MAX_HOUR == 23

\* int(x) of Python on a JSON value
PyInt(x) ==
    CASE x.kind = "int" -> [ok |-> TRUE, v |-> x.v]
      [] x.kind = "bool" -> [ok |-> TRUE, v |-> IF x.b THEN 1 ELSE 0]
      [] x.kind = "float" ->
            [ok |-> TRUE,
             v |-> IF x.tenths >= 0 THEN x.tenths \div 10
                   ELSE 0 - ((0 - x.tenths) \div 10)]
      [] x.kind = "inf" -> [ok |-> FALSE, exc |-> "OverflowError"]
      [] x.kind = "nan" -> [ok |-> FALSE, exc |-> "ValueError"]
      [] x.kind = "str" -> PyIntStr(x.s)
      [] OTHER -> [ok |-> FALSE, exc |-> "TypeError"]

\* validation mutant: the upper limit is off by one
validate_hour_upto24(hour) ==
    LET target_hour == PyInt(hour)
    IN  IF ~target_hour.ok
        THEN [kind |-> "raise",
              exc |-> IF target_hour.exc \in {"ValueError", "TypeError"}
                      THEN "ValueError" ELSE target_hour.exc]
        ELSE IF target_hour.v < 0 \/ target_hour.v > MAX_HOUR + 1
        THEN [kind |-> "raise", exc |-> "ValueError"]
        ELSE [kind |-> "return", v |-> target_hour.v]

\* validate_hour: int(hour), range check; ValueError and TypeError are
\* re-raised as ValueError, any other exception of int() propagates
validate_hour(hour) ==
    LET target_hour == PyInt(hour)
    IN  IF ~target_hour.ok
        THEN [kind |-> "raise",
              exc |-> IF target_hour.exc \in {"ValueError", "TypeError"}
                      THEN "ValueError" ELSE target_hour.exc]
        ELSE IF target_hour.v < 0 \/ target_hour.v > MAX_HOUR
        THEN [kind |-> "raise", exc |-> "ValueError"]
        ELSE [kind |-> "return", v |-> target_hour.v]

\* parsing mutant: a bad job is dropped instead of failing the event
RECURSIVE ParseJobsSkipMalformed(_, _)
ParseJobsSkipMalformed(js, acc) ==
    IF Len(js) = 0 THEN [kind |-> "return", jobs |-> acc]
    ELSE LET job == js[1] IN
         IF job.kind # "dict" \/ ~job.has_date \/ ~job.has_hour
         THEN ParseJobsSkipMalformed(Tail(js), acc)
         ELSE IF validate_hour(job.hour).kind = "raise"
         THEN ParseJobsSkipMalformed(Tail(js), acc)
         ELSE ParseJobsSkipMalformed(Tail(js),
                                     Append(acc, <<job.date, validate_hour(job.hour).v>>))

\* the loop of parse_event over event['jobs']: the first bad job raises
RECURSIVE ParseJobs(_, _)
ParseJobs(js, acc) ==
    IF Len(js) = 0 THEN [kind |-> "return", jobs |-> acc]
    ELSE LET job == js[1] IN
         IF job.kind # "dict" THEN [kind |-> "raise", exc |-> "ValueError"]
         ELSE IF ~job.has_date \/ ~job.has_hour
         THEN [kind |-> "raise", exc |-> "ValueError"]
         ELSE LET target_hour == validate_hour(job.hour) IN
              IF target_hour.kind = "raise" THEN target_hour
              ELSE ParseJobs(Tail(js), Append(acc, <<job.date, target_hour.v>>))

\* parse_event.  Events: [kind |-> "empty", now_date, now_hour] (the clock
\* reading is part of the input), [kind |-> "jobs", jobs], [kind |-> "single",
\* date, hour], [kind |-> "other"] (none of the accepted shapes)
parse_event(ev) ==
    CASE ev.kind = "empty" -> [kind |-> "return", jobs |-> <<<<ev.now_date, ev.now_hour>>>>]
      [] ev.kind = "jobs" -> ParseJobs(ev.jobs, <<>>)
      [] ev.kind = "single" ->
            LET target_hour == validate_hour(ev.hour) IN
            IF target_hour.kind = "raise" THEN target_hour
            ELSE [kind |-> "return", jobs |-> <<<<ev.date, target_hour.v>>>>]
      [] OTHER -> [kind |-> "raise", exc |-> "ValueError"]

\* a well-formed job dictionary
Job(date, hour) ==
    [kind |-> "dict", has_date |-> TRUE, date |-> date, has_hour |-> TRUE, hour |-> hour]

IntVal(n) == [kind |-> "int", v |-> n]

StrVal(str) == [kind |-> "str", s |-> str]

\* how far outside 0..23 the hours drawn reach
HourMargin == 2

\* longest hour string drawn
MaxHourStrLen == 3

HourAlphabet == {"a", "b", "c", "0", "2", "4", "-", " ", "_"}

HourInputs ==
    {IntVal(n) : n \in (0 - HourMargin)..(MAX_HOUR + HourMargin)}
    \cup {[kind |-> "float", tenths |-> k] :
            k \in (0 - 10 * HourMargin)..(10 * (MAX_HOUR + HourMargin))}
    \cup {StrVal(str) : str \in StringsUpTo(HourAlphabet, MaxHourStrLen)}
    \cup {[kind |-> "bool", b |-> b] : b \in BOOLEAN}
    \cup {[kind |-> "inf"], [kind |-> "nan"], [kind |-> "null"], [kind |-> "list"]}

HourInit ==
    /\ hourIn \in HourInputs
    /\ hourOut = NoRec /\ parseOut = NoRec
    /\ IdleStores /\ IdlePlanner /\ IdleIngest /\ IdleCodec

HourValidate ==
    /\ hourOut = NoRec
    /\ hourOut' = validate_hour(hourIn)
    /\ UNCHANGED <<hourIn, parseOut>>
    /\ UNCHANGED <<storeVars, plannerVars, ingestVars, codecVars>>

\* parse_event on the one-job event and on a two-job list ending in that job
HourParse ==
    /\ parseOut = NoRec
    /\ \E ev \in {[kind |-> "single", date |-> D_0115, hour |-> hourIn],
                  [kind |-> "jobs", jobs |-> <<Job(D_0115, IntVal(0)), Job(D_0115, hourIn)>>]} :
          /\ event' = ev
          /\ parseOut' = parse_event(ev)
    /\ UNCHANGED <<hourIn, hourOut>>
    /\ UNCHANGED <<storeVars, plannerVars, codecVars>>
    /\ UNCHANGED <<env, hpc, config, jobs, job_index, city_index, job_success,
                   total_success, attempts, fetched, puts, warned, response, history>>

HourNext == HourValidate \/ HourParse

SpecHour == HourInit /\ [][HourNext]_vars

\* the hour of the last job parse_event returned
LastParsedHour == parseOut.jobs[Len(parseOut.jobs)][2]

IsIntegerInput(x) == x.kind \in {"int", "bool"}

IntegerOf(x) == IF x.kind = "int" THEN x.v ELSE IF x.b THEN 1 ELSE 0

\* C10 (as stated): validate_hour returns the hour for every integer in 0..23
\* and fails with a validation error for every other input; parse_event
\* accepts a job only if its hour is an integer in [0,23].
C10_OnlyIntegersAccepted ==
    /\ hourOut.kind # "none" =>
          IF IsIntegerInput(hourIn) /\ IntegerOf(hourIn) \in 0..MAX_HOUR
          THEN hourOut = [kind |-> "return", v |-> IntegerOf(hourIn)]
          ELSE hourOut.kind = "raise"
    /\ parseOut.kind = "return" =>
          IsIntegerInput(hourIn) /\ IntegerOf(hourIn) \in 0..MAX_HOUR

AllDigits(str) == Len(str) > 0 /\ \A i \in DOMAIN str : str[i] \in DigitSet

HasLetter(str) == \E i \in DOMAIN str : str[i] \in {"a", "b", "c"}

\* C10 (amended): validate_hour returns the hour for every integer in 0..23
\* and raises the validation error for every other integer (-1 and 24
\* included) and for "abc"; it converts before it checks, so a digit string,
\* a boolean or a float that truncates into 0..23 is accepted and returned as
\* that integer; whatever it returns lies in 0..23, and parse_event accepts
\* a job only with such an hour.
C10_HourConversion ==
    /\ hourOut.kind # "none" =>
          /\ hourOut.kind \in {"return", "raise"}
          /\ hourOut.kind = "return" => hourOut.v \in 0..MAX_HOUR
          /\ hourIn.kind = "int" =>
                IF hourIn.v \in 0..MAX_HOUR
                THEN hourOut = [kind |-> "return", v |-> hourIn.v]
                ELSE hourOut = [kind |-> "raise", exc |-> "ValueError"]
          /\ hourIn.kind = "bool" => hourOut.kind = "return"
          /\ hourIn.kind = "float" =>
                (hourOut.kind = "return" <=>
                    (hourIn.tenths > -10 /\ hourIn.tenths < 10 * (MAX_HOUR + 1)))
          /\ (hourIn.kind = "float" /\ hourOut.kind = "return") =>
                /\ 10 * hourOut.v <= hourIn.tenths \/ hourIn.tenths < 0
                /\ hourIn.tenths < 10 * (hourOut.v + 1)
          /\ (hourIn.kind = "str" /\ AllDigits(hourIn.s)) =>
                IF DigitsValue(hourIn.s) <= MAX_HOUR
                THEN hourOut = [kind |-> "return", v |-> DigitsValue(hourIn.s)]
                ELSE hourOut = [kind |-> "raise", exc |-> "ValueError"]
          /\ (hourIn.kind = "str" /\ (hourIn.s = <<>> \/ HasLetter(hourIn.s))) =>
                hourOut = [kind |-> "raise", exc |-> "ValueError"]
          /\ hourIn.kind \in {"null", "list", "nan"} =>
                hourOut = [kind |-> "raise", exc |-> "ValueError"]
          /\ hourIn.kind = "inf" => hourOut = [kind |-> "raise", exc |-> "OverflowError"]
    /\ parseOut.kind # "none" =>
          /\ parseOut.kind = "return" =>
                /\ LastParsedHour \in 0..MAX_HOUR
                /\ hourIn.kind = "int" => LastParsedHour = hourIn.v
                /\ Len(parseOut.jobs) = (IF event.kind = "jobs" THEN 2 ELSE 1)
          /\ (hourIn.kind = "int" /\ hourIn.v \notin 0..MAX_HOUR) =>
                parseOut = [kind |-> "raise", exc |-> "ValueError"]
          /\ (hourIn.kind = "int" /\ hourIn.v \in 0..MAX_HOUR) => parseOut.kind = "return"

\* "abc" has been rejected by validate_hour and by parse_event
C10_Witness ==
    /\ hourIn = StrVal(<<"a", "b", "c">>)
    /\ hourOut = [kind |-> "raise", exc |-> "ValueError"]
    /\ parseOut = [kind |-> "raise", exc |-> "ValueError"]

-----------------------------------------------------------------------------
(* Configuration (config.py) and the ingest handler (lambda_handler).       *)
(* The environment is a record: api_key and raw_bucket say whether the      *)
(* variable holds a non-empty value; CITIES and MAX_BACKFILL_EVENTS are      *)
(* [set |-> BOOLEAN, s |-> string].                                         *)

\* os.environ.get('MAX_BACKFILL_EVENTS', '24')
DEFAULT_MAX_BACKFILL_EVENTS == <<"2", "4">>

\* [city.strip() for city in parts], as a sequence
StripEach(parts) == [i \in DOMAIN parts |-> Strip(parts[i], Whitespace)]

\* Config._parse_cities
parse_cities(v) ==
    IF ~v.set \/ v.s = <<>> THEN <<>>
    ELSE SelectSeq(StripEach(Split(v.s, <<",">>)), LAMBDA city : city # <<>>)

\* Config.__init__ with Config._validate
load_config(e) ==
    LET cities == parse_cities(e.CITIES)
        max_backfill_events ==
            PyIntStr(IF e.MAX_BACKFILL_EVENTS.set THEN e.MAX_BACKFILL_EVENTS.s
                     ELSE DEFAULT_MAX_BACKFILL_EVENTS)
    IN  IF ~max_backfill_events.ok THEN [kind |-> "raise", exc |-> "ValueError"]
        ELSE IF ~e.api_key \/ ~e.raw_bucket \/ cities = <<>>
        THEN [kind |-> "raise", exc |-> "ValueError"]
        ELSE [kind |-> "config", cities |-> cities,
              max_backfill_events |-> max_backfill_events.v]

\* truncation mutant: the limit is not applied
SliceKeepAll(seq, n) == seq

\* seq[:n] of Python, negative n counted from the end
SlicePrefix(seq, n) ==
    IF n >= 0 THEN SubSeq(seq, 1, IF n < Len(seq) THEN n ELSE Len(seq))
    ELSE SubSeq(seq, 1, IF Len(seq) + n > 0 THEN Len(seq) + n ELSE 0)

\* counting mutant: a failed city is counted as a success
CountEveryAttempt(outcome) == 1

\* job_success += 1 is reached only when process_city did not raise
SuccessIncrement(outcome) == IF outcome = "ok" THEN 1 ELSE 0

\* the 500 envelope of the handler's outer except
Failure500 == [kind |-> "response", statusCode |-> 500]

\* lines 39-53: load the configuration, parse the event, cut the job list
HandlerStart ==
    /\ hpc = "start"
    /\ LET cfg == load_config(env)
           parsed == parse_event(event)
       IN  IF cfg.kind = "raise" \/ parsed.kind = "raise"
           THEN /\ response' = Failure500
                /\ hpc' = "done"
                /\ UNCHANGED <<config, jobs, job_index, city_index, warned>>
           ELSE /\ config' = cfg
                /\ warned' = (Len(parsed.jobs) > cfg.max_backfill_events)
                /\ jobs' = SlicePrefix(parsed.jobs, cfg.max_backfill_events)
                /\ job_index' = 1 /\ city_index' = 1
                /\ hpc' = "loop"
                /\ UNCHANGED response
    /\ UNCHANGED <<env, event, job_success, total_success, attempts, fetched, puts,
                   history>>
    /\ UNCHANGED <<storeVars, plannerVars, codecVars, hourVars>>

AttemptOutcomes == {"ok", "fetch_failed", "save_failed"}

\* lines 59-67 with process_city: one city of the current job.  The fetch
\* or the put may raise; the exception is caught and logged.  After the last
\* city the job's successes are added to the total.
ProcessCity ==
    /\ hpc = "loop"
    /\ job_index <= Len(jobs)
    /\ \E outcome \in AttemptOutcomes :
        LET city == config.cities[city_index]
            target_date == jobs[job_index][1]
            target_hour == jobs[job_index][2]
            key == build_s3_key(CityId(city), target_date, target_hour)
            succ == job_success + SuccessIncrement(outcome)
            last == city_index = Len(config.cities)
        IN  /\ fetched' = Append(fetched, <<city, target_date, target_hour>>)
            /\ attempts' = Append(attempts, [job |-> job_index, city |-> city_index,
                                             outcome |-> outcome])
            /\ IF outcome = "ok"
               THEN /\ rawStore' = rawStore \cup {key}
                    /\ puts' = Append(puts, key)
               ELSE UNCHANGED <<rawStore, puts>>
            /\ IF last
               THEN /\ total_success' = total_success + succ
                    /\ job_success' = 0
                    /\ job_index' = job_index + 1
                    /\ city_index' = 1
               ELSE /\ job_success' = succ
                    /\ city_index' = city_index + 1
                    /\ UNCHANGED <<total_success, job_index>>
    /\ UNCHANGED <<env, event, hpc, config, jobs, warned, response, procStore, history>>
    /\ UNCHANGED <<plannerVars, codecVars, hourVars>>

\* lines 69-72: the 200 envelope with the success ratio
HandlerReturn ==
    /\ hpc = "loop"
    /\ job_index > Len(jobs)
    /\ response' = [kind |-> "response", statusCode |-> 200,
                    success |-> total_success,
                    of |-> Len(jobs) * Len(config.cities)]
    /\ hpc' = "done"
    /\ UNCHANGED <<env, event, config, jobs, job_index, city_index, job_success,
                   total_success, attempts, fetched, puts, warned, history>>
    /\ UNCHANGED <<storeVars, plannerVars, codecVars, hourVars>>

\* longest jobs list drawn
MaxJobs == 3

\* largest MAX_BACKFILL_EVENTS setting drawn (besides unset, "-1" and "x")
MaxBackfill == 2

D_0114 == <<"2","0","2","4","-","0","1","-","1","4">>

CITIES_ONE == <<"L","o","n","d","o","n">>

CITIES_TWO == <<"L","o","n","d","o","n",","," ","N","e","w"," ","Y","o","r","k"," ",",">>

EnvSetting(str) == [set |-> TRUE, s |-> str]

Unset == [set |-> FALSE, s |-> <<>>]

MaxBackfillSettings ==
    {Unset, EnvSetting(<<"-", "1">>), EnvSetting(<<"x">>)}
    \cup {EnvSetting(DecStr(n)) : n \in 0..MaxBackfill}

GoodEnvs ==
    {[kind |-> "env", api_key |-> TRUE, raw_bucket |-> TRUE,
      CITIES |-> EnvSetting(c), MAX_BACKFILL_EVENTS |-> m] :
        c \in {CITIES_ONE, CITIES_TWO}, m \in MaxBackfillSettings}

\* one required setting missing (or CITIES holding only separators)
IncompleteEnvs ==
    {[kind |-> "env", api_key |-> k, raw_bucket |-> b, CITIES |-> c,
      MAX_BACKFILL_EVENTS |-> EnvSetting(<<"1">>)] :
        k \in BOOLEAN, b \in BOOLEAN,
        c \in {EnvSetting(CITIES_ONE), Unset, EnvSetting(<<" ", ",", " ">>)}}

ValidJobs == {Job(D_0115, IntVal(10)), Job(D_0114, IntVal(9))}

MalformedJobs ==
    {Job(D_0115, IntVal(MAX_HOUR + 1)), [kind |-> "nondict"],
     [kind |-> "dict", has_date |-> TRUE, date |-> D_0115,
      has_hour |-> FALSE, hour |-> NoRec]}

Events ==
    {[kind |-> "empty", now_date |-> D_0115, now_hour |-> 7], [kind |-> "other"]}
    \cup {[kind |-> "single", date |-> D_0114, hour |-> h] :
            h \in {IntVal(0), IntVal(0 - 1), StrVal(<<"a", "b", "c">>)}}
    \cup {[kind |-> "jobs", jobs |-> js] :
            js \in StringsUpTo(ValidJobs \cup MalformedJobs, MaxJobs)}

IngestInit ==
    /\ env \in GoodEnvs \cup IncompleteEnvs
    /\ event \in Events
    /\ hpc = "start" /\ config = NoRec /\ jobs = <<>>
    /\ job_index = 0 /\ city_index = 0 /\ job_success = 0 /\ total_success = 0
    /\ attempts = <<>> /\ fetched = <<>> /\ puts = <<>> /\ warned = FALSE
    /\ response = NoRec /\ history = NoRec
    /\ IdleStores /\ IdlePlanner /\ IdleCodec /\ IdleHour

IngestNext == HandlerStart \/ ProcessCity \/ HandlerReturn

SpecIngest == IngestInit /\ [][IngestNext]_vars

\* the (job, city) pairs of J jobs and C cities in loop order
ExpectedPairs(J, C) ==
    [k \in 1..(J * C) |-> <<((k - 1) \div C) + 1, ((k - 1) % C) + 1>>]

OkAttempts == SelectSeq(attempts, LAMBDA a : a.outcome = "ok")

\* C7: per-city failures are isolated: every (job, city) pair of the
\* truncated job list is attempted in order, a raw object is written for
\* exactly the pairs that did not fail, the handler returns 200 and reports
\* (non-failing pairs) / (jobs x cities).
C7_PerCityIsolation ==
    (hpc = "done" /\ (attempts # <<>> \/ response.statusCode = 200)) =>
        /\ response.statusCode = 200
        /\ Len(attempts) = Len(jobs) * Len(config.cities)
        /\ \A k \in DOMAIN attempts :
              /\ <<attempts[k].job, attempts[k].city>>
                    = ExpectedPairs(Len(jobs), Len(config.cities))[k]
              /\ fetched[k] = <<config.cities[attempts[k].city],
                                jobs[attempts[k].job][1], jobs[attempts[k].job][2]>>
        /\ Len(puts) = Len(OkAttempts)
        /\ \A k \in DOMAIN puts :
              puts[k] = build_s3_key(CityId(config.cities[OkAttempts[k].city]),
                                     jobs[OkAttempts[k].job][1],
                                     jobs[OkAttempts[k].job][2])
        /\ rawStore = {puts[k] : k \in DOMAIN puts}
        /\ response.success = Len(OkAttempts)
        /\ response.of = Len(jobs) * Len(config.cities)

\* one job, two cities, the first city's fetch failed: one write, ratio 1/2
C7_Witness ==
    /\ hpc = "done" /\ response.statusCode = 200
    /\ Len(jobs) = 1 /\ Len(config.cities) = 2
    /\ attempts[1].outcome = "fetch_failed" /\ attempts[2].outcome = "ok"
    /\ Len(puts) = 1 /\ response.success = 1 /\ response.of = 2

ConfigIsIncomplete(e) ==
    \/ ~e.api_key \/ ~e.raw_bucket \/ ~e.CITIES.set
    \/ \A i \in DOMAIN e.CITIES.s : e.CITIES.s[i] \in {" ", ","}
    \/ (e.MAX_BACKFILL_EVENTS.set /\ e.MAX_BACKFILL_EVENTS.s = <<"x">>)

HourIsOutOfRange(h) == ~(h.kind = "int" /\ h.v \in 0..MAX_HOUR)

JobIsMalformed(j) ==
    j.kind # "dict" \/ ~j.has_date \/ ~j.has_hour \/ HourIsOutOfRange(j.hour)

EventIsInvalid(ev) ==
    \/ ev.kind = "other"
    \/ ev.kind = "single" /\ HourIsOutOfRange(ev.hour)
    \/ ev.kind = "jobs" /\ \E i \in DOMAIN ev.jobs : JobIsMalformed(ev.jobs[i])

\* C8: a configuration error or an event validation error (any malformed
\* or out-of-range job, wherever it stands in the list) ends the invocation
\* with the 500 envelope and without any fetch or raw-store write.
C8_FatalErrorsNoWork ==
    /\ (hpc = "done" /\ (ConfigIsIncomplete(env) \/ EventIsInvalid(event))) =>
          response = Failure500
    /\ (hpc # "start" /\ (ConfigIsIncomplete(env) \/ EventIsInvalid(event))) =>
          /\ hpc = "done"
          /\ fetched = <<>> /\ puts = <<>> /\ attempts = <<>> /\ rawStore = {}
    /\ (response.kind = "response" /\ response.statusCode = 500) =>
          fetched = <<>> /\ puts = <<>> /\ rawStore = {}

\* two valid jobs, then a malformed one beyond the cut-off of 1: rejected
C8_Witness ==
    /\ hpc = "done" /\ response = Failure500
    /\ ~ConfigIsIncomplete(env) /\ env.MAX_BACKFILL_EVENTS = EnvSetting(<<"1">>)
    /\ event.kind = "jobs" /\ Len(event.jobs) = 3
    /\ ~JobIsMalformed(event.jobs[1]) /\ ~JobIsMalformed(event.jobs[2])
    /\ JobIsMalformed(event.jobs[3])
    /\ fetched = <<>> /\ puts = <<>>

\* the jobs a valid event stands for
ExpectedJobs(ev) ==
    CASE ev.kind = "empty" -> <<<<ev.now_date, ev.now_hour>>>>
      [] ev.kind = "single" -> <<<<ev.date, ev.hour.v>>>>
      [] ev.kind = "jobs" -> [i \in DOMAIN ev.jobs |-> <<ev.jobs[i].date, ev.jobs[i].hour.v>>]

TruncationAsClaimed(n) ==
    LET parsed == ExpectedJobs(event)
    IN  IF Len(parsed) > n
        THEN /\ jobs = SubSeq(parsed, 1, n)
             /\ warned
             /\ {attempts[k].job : k \in DOMAIN attempts} = 1..n
        ELSE /\ jobs = parsed
             /\ ~warned
             /\ {attempts[k].job : k \in DOMAIN attempts} = 1..Len(parsed)

\* C9 (as stated): more jobs than max_backfill_events: exactly the first
\* max_backfill_events jobs are processed, with a warning, and the handler
\* succeeds; otherwise all jobs are processed without a warning.
C9_TruncationAnyMaximum ==
    (hpc = "done" /\ config.kind = "config") =>
        /\ response.statusCode = 200
        /\ TruncationAsClaimed(config.max_backfill_events)

\* C9 (amended): the same, for a max_backfill_events that is not negative.
C9_Truncation ==
    (hpc = "done" /\ config.kind = "config" /\ config.max_backfill_events >= 0) =>
        /\ response.statusCode = 200
        /\ TruncationAsClaimed(config.max_backfill_events)

\* three jobs and a maximum of 2: the first two processed, warning recorded
C9_Witness ==
    /\ hpc = "done" /\ response.statusCode = 200
    /\ config.max_backfill_events = 2
    /\ event.kind = "jobs" /\ Len(event.jobs) = 3
    /\ event.jobs[1] # event.jobs[2]
    /\ jobs = <<<<event.jobs[1].date, event.jobs[1].hour.v>>,
                <<event.jobs[2].date, event.jobs[2].hour.v>>>>
    /\ warned
    /\ Len(attempts) = 2 * Len(config.cities)

-----------------------------------------------------------------------------
(* Object store listing (boto3 list_objects_v2 / head_object) over a bucket *)
(* given as its set of keys.                                                *)

\* the keys under Prefix
KeysWithPrefix(store, prefix) == {k \in store : StartsWith(k, prefix)}

\* the CommonPrefixes of a listing with Prefix and Delimiter: each key is
\* rolled up to the first delimiter after the prefix
CommonPrefixes(store, prefix, delim) ==
    LET rest(k) == SubSeq(k, Len(prefix) + 1, Len(k))
    IN  {prefix \o SubSeq(rest(k), 1, Find(rest(k), delim) + Len(delim) - 1) :
            k \in {x \in KeysWithPrefix(store, prefix) : Contains(rest(x), delim)}}

\* probe mutant: any key under the prefix counts as existing
head_object_prefix(store, key) == \E k \in store : StartsWith(k, key)

\* head_object succeeds only for an object stored under exactly that key
head_object(store, key) == key \in store

-----------------------------------------------------------------------------
(* datetime.strptime(date_str, '%Y-%m-%d').                                 *)

IsDigits(str) == Len(str) > 0 /\ \A i \in DOMAIN str : str[i] \in DigitSet

IsLeap(y) == (y % 4 = 0 /\ y % 100 # 0) \/ y % 400 = 0

DaysInMonth(y, m) ==
    IF m \in {1, 3, 5, 7, 8, 10, 12} THEN 31
    ELSE IF m \in {4, 6, 9, 11} THEN 30
    ELSE IF IsLeap(y) THEN 29 ELSE 28

\* %Y is four digits, %m and %d one or two digits (the day also " d");
\* the whole string must match and name a day of the calendar
IsValidDate(date_str) ==
    LET f == Split(date_str, <<"-">>)
        dayDigits == IF Len(f[3]) = 2 /\ f[3][1] = " " THEN Tail(f[3]) ELSE f[3]
    IN  /\ Len(f) = 3
        /\ Len(f[1]) = 4 /\ IsDigits(f[1]) /\ DigitsValue(f[1]) >= 1
        /\ Len(f[2]) \in {1, 2} /\ IsDigits(f[2]) /\ DigitsValue(f[2]) \in 1..12
        /\ Len(f[3]) \in {1, 2} /\ IsDigits(dayDigits)
        /\ DigitsValue(dayDigits) >= 1
        /\ DigitsValue(dayDigits) <= DaysInMonth(DigitsValue(f[1]), DigitsValue(f[2]))

-----------------------------------------------------------------------------
(* The incremental-transform planner (get_unprocessed_files_dict).          *)
(* A fault names the one store call that fails in a run:                    *)
(*   [op |-> "none" | "list_dates" | "list_raw" | "head" | "list_cities" |  *)
(*           "list_hours", date, arg]  (arg: the city prefix of list_hours) *)

S3_SCHEME == <<"s","3",":","/","/">>

PROCESSED_DT == <<"p","r","o","c","e","s","s","e","d","/","d","t","=">>

DT_EQ == <<"d","t","=">>

CITY_EQ == <<"c","i","t","y","=">>

HOUR_EQ == <<"h","o","u","r","=">>

NoFault == [op |-> "none", date |-> <<>>, arg |-> <<>>]

Fault(op, date, arg) == [op |-> op, date |-> date, arg |-> arg]

\* lines 59-79: the valid dates among the raw date partitions
RawDates(raw) ==
    LET paths == {q \in CommonPrefixes(raw, HISTORICAL_DT, <<"/">>) : Contains(q, DT_EQ)}
        date_str(path) == RStrip(Split(path, DT_EQ)[2], {"/"})
    IN  {date_str(path) : path \in {q \in paths : IsValidDate(date_str(q))}}

\* lines 98-109: the .json keys of one date, in listing order
RawJsonFiles(raw, date_str) ==
    SortedAsc({k \in KeysWithPrefix(raw, HISTORICAL_DT \o date_str \o <<"/">>) :
                  EndsWith(k, DOT_JSON)})

\* lines 143-152: the hours listed under one city prefix
HoursOfCity(proc, city_prefix) ==
    LET hour_prefixes ==
            {h \in CommonPrefixes(proc, city_prefix, <<"/">>) : Contains(h, HOUR_EQ)}
        hour_str(h) == RStrip(Split(h, HOUR_EQ)[2], {"/"})
    IN  {PyIntStr(hour_str(h)).v : h \in {x \in hour_prefixes : PyIntStr(hour_str(x)).ok}}

\* lines 129-152: the loop over the city prefixes in listing order; a failing
\* hour listing leaves the loop with what was collected so far
RECURSIVE CombinationsOfCities(_, _, _, _)
CombinationsOfCities(proc, city_prefixes, flt, acc) ==
    IF Len(city_prefixes) = 0 THEN acc
    ELSE LET city_prefix == city_prefixes[1] IN
         IF ~Contains(city_prefix, CITY_EQ)
         THEN CombinationsOfCities(proc, Tail(city_prefixes), flt, acc)
         ELSE IF flt.op = "list_hours" /\ flt.arg = city_prefix THEN acc
         ELSE LET city_id == RStrip(Split(city_prefix, CITY_EQ)[2], {"/"})
              IN  CombinationsOfCities(proc, Tail(city_prefixes), flt,
                     acc \cup {<<city_id, h>> : h \in HoursOfCity(proc, city_prefix)})

\* lines 115-156: the processed (city_id, hour) pairs of one date; the bare
\* except turns a failed probe and a failed listing alike into "what was
\* collected so far"
ProcessedCombinations(proc, date_str, flt) ==
    LET date_prefix == PROCESSED_DT \o date_str \o <<"/">> IN
    IF flt.op = "head" /\ flt.date = date_str THEN {}
    ELSE IF ~head_object(proc, date_prefix) THEN {}
    ELSE IF flt.op = "list_cities" /\ flt.date = date_str THEN {}
    ELSE CombinationsOfCities(proc,
            SortedAsc(CommonPrefixes(proc, date_prefix, <<"/">>)), flt, {})

\* f"s3://{raw_bucket}/{raw_file}"
RawRef(raw_bucket, raw_file) == S3_SCHEME \o raw_bucket \o <<"/">> \o raw_file

\* lines 158-176: the raw files without a processed counterpart
RECURSIVE UnprocessedFiles(_, _, _)
UnprocessedFiles(raw_bucket, raw_files, processed_combinations) ==
    IF Len(raw_files) = 0 THEN <<>>
    ELSE LET unit == DecodeRaw(raw_files[1])
             rest == UnprocessedFiles(raw_bucket, Tail(raw_files), processed_combinations)
         IN  IF unit.kind = "unit" /\ <<unit.city_id, unit.hour>> \notin processed_combinations
             THEN <<RawRef(raw_bucket, raw_files[1])>> \o rest
             ELSE rest

\* lines 96-187: one date of the loop; <<>> when the date yields nothing
\* (no .json file, nothing unprocessed, or the raw listing failed)
PlanDate(raw_bucket, raw, proc, date_str, flt) ==
    IF flt.op = "list_raw" /\ flt.date = date_str THEN <<>>
    ELSE LET raw_files == RawJsonFiles(raw, date_str) IN
         IF Len(raw_files) = 0 THEN <<>>
         ELSE UnprocessedFiles(raw_bucket, raw_files,
                               ProcessedCombinations(proc, date_str, flt))

\* limit mutant: one date too many
LimitPassedLate(processed_count, maxd) == processed_count > maxd

\* line 92: if processed_count >= max_days: break
LimitReached(processed_count, maxd) == processed_count >= maxd

\* lines 89-187: the loop over the dates, newest first.  visited records the
\* dates the loop body ran for (not part of the returned value).
RECURSIVE PlanDates(_, _, _, _, _, _, _, _)
PlanDates(raw_bucket, raw, proc, maxd, flt, dates, processed_count, acc) ==
    IF Len(dates) = 0 \/ LimitReached(processed_count, maxd) THEN acc
    ELSE LET unprocessed_files == PlanDate(raw_bucket, raw, proc, dates[1], flt) IN
         IF Len(unprocessed_files) > 0
         THEN PlanDates(raw_bucket, raw, proc, maxd, flt, Tail(dates), processed_count + 1,
                        [d |-> acc.d @@ (dates[1] :> unprocessed_files),
                         visited |-> acc.visited \cup {dates[1]}])
         ELSE PlanDates(raw_bucket, raw, proc, maxd, flt, Tail(dates), processed_count,
                        [d |-> acc.d, visited |-> acc.visited \cup {dates[1]}])

\* get_unprocessed_files_dict: [kind |-> "dict", d |-> date -> references],
\* or [kind |-> "raise"] when the listing of the date partitions fails
get_unprocessed_files_dict(raw_bucket, raw, proc, maxd, flt) ==
    IF flt.op = "list_dates" THEN [kind |-> "raise"]
    ELSE LET out == PlanDates(raw_bucket, raw, proc, maxd, flt,
                              SortedDesc(RawDates(raw)), 0, [d |-> <<>>, visited |-> {}])
         IN  [kind |-> "dict", d |-> out.d, visited |-> out.visited]

\* the store calls a run without fault makes for one visited date
CallsForDate(raw, proc, date_str) ==
    LET date_prefix == PROCESSED_DT \o date_str \o <<"/">> IN
    {Fault("list_raw", date_str, <<>>)}
    \cup (IF Len(RawJsonFiles(raw, date_str)) = 0 THEN {}
          ELSE {Fault("head", date_str, <<>>)}
               \cup (IF ~head_object(proc, date_prefix) THEN {}
                     ELSE {Fault("list_cities", date_str, <<>>)}
                          \cup {Fault("list_hours", date_str, c) :
                                  c \in {x \in CommonPrefixes(proc, date_prefix, <<"/">>) :
                                            Contains(x, CITY_EQ)}}))

\* the single-call faults that can strike a run on these stores
FeasibleFaults(raw_bucket, raw, proc, maxd) ==
    {NoFault, Fault("list_dates", <<>>, <<>>)}
    \cup UNION {CallsForDate(raw, proc, date_str) :
                  date_str \in get_unprocessed_files_dict(raw_bucket, raw, proc,
                                                          maxd, NoFault).visited}

-----------------------------------------------------------------------------
(* The planner specification: every content of the two stores drawn from   *)
(* small universes, every max_days up to a bound, one planner run.          *)

RAW_BUCKET == <<"w","e","a","t","h","e","r","-","r","a","w">>

D_0113 == <<"2","0","2","4","-","0","1","-","1","3">>

\* 30 February: a well-formed date string that is no calendar date
D_0230 == <<"2","0","2","4","-","0","2","-","3","0">>

LONDON == <<"L","o","n","d","o","n">>

PARIS == <<"P","a","r","i","s">>

NEW_YORK == <<"N","e","w"," ","Y","o","r","k">>

README_JSON == <<"r","e","a","d","m","e",".","j","s","o","n">>

NOTES_TXT == <<"n","o","t","e","s",".","t","x","t">>

PART_FILE == <<"p","a","r","t","-","0",".","p","a","r","q","u","e","t">>

\* a raw key as process_city writes it
RawKey(city, date, hour) == build_s3_key(CityId(city), date, hour)

RawKeyUniverse ==
    {RawKey(LONDON, D_0115, 10), RawKey(LONDON, D_0115, 11),
     RawKey(PARIS, D_0114, 9), HISTORICAL_DT \o D_0114 \o <<"/">> \o README_JSON,
     RawKey(NEW_YORK, D_0113, 7), HISTORICAL_DT \o D_0113 \o <<"/">> \o NOTES_TXT,
     RawKey(LONDON, D_0230, 10)}

\* the folder object of a processed date
ProcessedFolder(date) == PROCESSED_DT \o date \o <<"/">>

\* a data file under processed/dt=<date>/city=<city_id>/hour=<hour>/
ProcessedKey(date, city_id, hour) ==
    PROCESSED_DT \o date \o <<"/">> \o CITY_EQ \o city_id \o <<"/">>
        \o HOUR_EQ \o DecStr(hour) \o <<"/">> \o PART_FILE

ProcessedKeyUniverse ==
    {ProcessedFolder(D_0115), ProcessedKey(D_0115, CityId(LONDON), 10),
     ProcessedKey(D_0115, CityId(LONDON), 11),
     ProcessedFolder(D_0114), ProcessedKey(D_0114, CityId(PARIS), 9)}

\* largest max_days drawn
MaxDaysDrawn == 2

\* main() of the transform job, first half: plan the work.  The run started
\* after a transform (pc = "transformed") keeps the first work-list.
Plan(faults) ==
    /\ pc \in {"start", "transformed"}
    /\ \E flt \in faults :
          /\ fault' = flt
          /\ plan' = get_unprocessed_files_dict(RAW_BUCKET, rawStore, procStore,
                                                max_days, flt)
    /\ firstPlan' = IF pc = "start" THEN plan' ELSE firstPlan
    /\ pc' = IF pc = "start" THEN "planned" ELSE "replanned"
    /\ UNCHANGED <<rawStore, procStore, max_days, bulkOut>>
    /\ UNCHANGED <<ingestVars, codecVars, hourVars>>

PlannerInit ==
    /\ rawStore \in SUBSET RawKeyUniverse
    /\ procStore \in SUBSET ProcessedKeyUniverse
    /\ max_days \in 0..MaxDaysDrawn
    /\ fault = NoFault /\ pc = "start"
    /\ plan = NoRec /\ firstPlan = NoRec /\ bulkOut = NoRec
    /\ IdleIngest /\ IdleCodec /\ IdleHour

\* a planner run in which any one store call may fail
PlanWithFaults == Plan(FeasibleFaults(RAW_BUCKET, rawStore, procStore, max_days))

PlannerNext == PlanWithFaults

SpecPlanner == PlannerInit /\ [][PlannerNext]_vars

-----------------------------------------------------------------------------
(* The bulk transform step (process_files_bulk) and the transform job.      *)

PROCESSED_ROOT == <<"p","r","o","c","e","s","s","e","d","/">>

SOURCE_DATE_EQ == <<"s","o","u","r","c","e","_","d","a","t","e","=">>

CITY_ID_EQ == <<"c","i","t","y","_","i","d","=">>

\* 1-based position of the last occurrence of the character c in s, 0 if none
RECURSIVE LastIndexOf(_, _, _)
LastIndexOf(s, c, i) ==
    IF i = 0 THEN 0 ELSE IF s[i] = c THEN i ELSE LastIndexOf(s, c, i - 1)

\* regexp_extract(input_file, r"/([^/]+\.json)$", 1)
ExtractFilename(input_file) ==
    LET name == FileName(input_file)
    IN  IF Contains(input_file, <<"/">>) /\ EndsWith(name, DOT_JSON) /\ Len(name) > 5
        THEN name ELSE <<>>

\* the digits of r"_(\d+)\.json$" in a filename, <<>> when there is no match
HourDigits(filename) ==
    LET base == SubSeq(filename, 1, Len(filename) - 5)
        u == LastIndexOf(base, "_", Len(base))
        digits == SubSeq(base, u + 1, Len(base))
    IN  IF EndsWith(filename, DOT_JSON) /\ u > 0 /\ IsDigits(digits) THEN digits ELSE <<>>

\* regexp_extract(filename, r"^(.+)_\d+\.json$", 1)
ExtractCityId(filename) ==
    LET digits == HourDigits(filename)
        city == SubSeq(filename, 1, Len(filename) - 5 - Len(digits) - 1)
    IN  IF digits = <<>> \/ Len(city) = 0 THEN <<>> ELSE city

\* regexp_extract(input_file, r"dt=([^/]+)/", 1): the first dt=<segment>/
RECURSIVE ExtractSourceDate(_)
ExtractSourceDate(input_file) ==
    LET i == Find(input_file, DT_EQ)
        after == SubSeq(input_file, i + Len(DT_EQ), Len(input_file))
        j == Find(after, <<"/">>)
    IN  IF i = 0 THEN <<>>
        ELSE IF j > 1 THEN SubSeq(after, 1, j - 1)
        ELSE ExtractSourceDate(after)

\* the name Spark gives the partition directory of a value (an empty or
\* null value goes to the default partition)
HIVE_DEFAULT == <<"_","_","H","I","V","E","_","D","E","F","A","U","L","T","_",
                  "P","A","R","T","I","T","I","O","N","_","_">>

PartitionValue(str) == IF str = <<>> THEN HIVE_DEFAULT ELSE str

\* lines 61-77 and 109-117: the object written for the record of one raw
\* file: partitionBy("source_date", "city_id", "hour") under processed/
WrittenKeys(ref) ==
    LET filename == ExtractFilename(ref)
        hour == HourDigits(filename)
    IN  {PROCESSED_ROOT
           \o SOURCE_DATE_EQ \o PartitionValue(ExtractSourceDate(ref)) \o <<"/">>
           \o CITY_ID_EQ \o PartitionValue(ExtractCityId(filename)) \o <<"/">>
           \o HOUR_EQ \o PartitionValue(IF hour = <<>> THEN <<>>
                                        ELSE DecStr(DigitsValue(hour))) \o <<"/">>
           \o PART_FILE}

\* lines 39-43: all references of the work-list
AllFilePaths(unprocessed_files_dict) ==
    UNION {{unprocessed_files_dict[date][i] : i \in DOMAIN unprocessed_files_dict[date]} :
             date \in DOMAIN unprocessed_files_dict}

\* process_files_bulk on the planned work-list: (records written, files
\* failed).  An empty work-list writes nothing; a read or write error fails
\* the whole batch.
ProcessFilesBulk ==
    /\ pc = "planned" /\ plan.kind = "dict"
    /\ LET all_file_paths == AllFilePaths(plan.d) IN
       IF all_file_paths = {}
       THEN /\ bulkOut' = [kind |-> "bulk", written |-> 0, failed |-> 0]
            /\ UNCHANGED procStore
       ELSE \/ /\ bulkOut' = [kind |-> "bulk", written |-> Cardinality(all_file_paths),
                              failed |-> 0]
               /\ procStore' = procStore \cup UNION {WrittenKeys(ref) : ref \in all_file_paths}
            \/ /\ bulkOut' = [kind |-> "bulk", written |-> 0,
                              failed |-> Cardinality(all_file_paths)]
               /\ UNCHANGED procStore
    /\ pc' = "transformed"
    /\ UNCHANGED <<rawStore, max_days, fault, plan, firstPlan>>
    /\ UNCHANGED <<ingestVars, codecVars, hourVars>>

\* a planner run whose store calls all succeed
PlanNoFault == Plan({NoFault})

\* the transform job run twice over an unchanged raw store
PipelineNext == PlanNoFault \/ ProcessFilesBulk

SpecPipeline == PlannerInit /\ [][PipelineNext]_vars

-----------------------------------------------------------------------------
(* Properties of the planner and of the transform job.                      *)

\* a processed key prefix processed/dt=<date>/city=<city_id>/hour=<hour>/
\* exists, the hour written plain or zero-padded
HasProcessedMarker(proc, date, city_id, hour) ==
    \E k \in proc : \E hour_str \in {DecStr(hour), Fmt02d(hour)} :
        StartsWith(k, PROCESSED_DT \o date \o <<"/">> \o CITY_EQ \o city_id \o <<"/">>
                        \o HOUR_EQ \o hour_str \o <<"/">>)

\* the decodable raw files of a date that have no processed marker
UnprocessedKeys(raw, proc, date) ==
    {k \in raw : /\ StartsWith(k, HISTORICAL_DT \o date \o <<"/">>)
                 /\ EndsWith(k, DOT_JSON)
                 /\ DecodeRaw(k).kind = "unit"
                 /\ ~HasProcessedMarker(proc, date, DecodeRaw(k).city_id, DecodeRaw(k).hour)}

DatesWithWork(raw, proc) == {d \in RawDates(raw) : UnprocessedKeys(raw, proc, d) # {}}

\* the n newest of a set of dates
NewestDates(dates, n) == {d \in dates : Cardinality({e \in dates : StrLess(d, e)}) < n}

\* the references listed under one date of a work-list
RefsOf(work, date) == {work[date][i] : i \in DOMAIN work[date]}

PlannedWithoutFault == pc = "planned" /\ fault = NoFault /\ plan.kind = "dict"

\* C1: after a work-list was planned and written successfully by
\* process_files_bulk, with the raw store unchanged, the next run of
\* get_unprocessed_files_dict returns no reference of the first work-list.
C1_TransformedFilesSkipped ==
    (pc = "replanned" /\ bulkOut.written > 0 /\ bulkOut.failed = 0) =>
        AllFilePaths(plan.d) \cap AllFilePaths(firstPlan.d) = {}

\* C2: every reference returned under date d names a raw object that exists
\* under historical/dt=d/ and whose decoded (city_id, hour) has no processed
\* key prefix processed/dt=d/city=<city_id>/hour=<hour>/.
C2_PlannerSoundness ==
    PlannedWithoutFault =>
        \A d \in DOMAIN plan.d : \A ref \in RefsOf(plan.d, d) :
            \E k \in rawStore :
                /\ ref = RawRef(RAW_BUCKET, k)
                /\ StartsWith(k, HISTORICAL_DT \o d \o <<"/">>)
                /\ DecodeRaw(k).kind = "unit"
                /\ ~HasProcessedMarker(procStore, d, DecodeRaw(k).city_id, DecodeRaw(k).hour)

\* C3: when no listing call fails, the dates of the result are exactly the
\* min(max_days, k) newest of the k valid raw dates that have a decodable raw
\* file without processed marker, and each date lists every such file.
C3_PlannerCompleteness ==
    PlannedWithoutFault =>
        /\ DOMAIN plan.d = NewestDates(DatesWithWork(rawStore, procStore), max_days)
        /\ \A d \in DOMAIN plan.d :
              RefsOf(plan.d, d) =
                  {RawRef(RAW_BUCKET, k) : k \in UnprocessedKeys(rawStore, procStore, d)}

\* C4: for every max_days >= 0 and every content of the two stores the
\* returned mapping has at most max_days date keys.
C4_AtMostMaxDays ==
    (pc = "planned" /\ plan.kind = "dict") => Cardinality(DOMAIN plan.d) <= max_days

\* three raw dates with unprocessed work and max_days = 2: the two newest
\* dates are returned, the third is cut off
C4_Witness ==
    /\ pc = "planned" /\ plan.kind = "dict" /\ fault = NoFault
    /\ max_days = 2
    /\ Cardinality(DatesWithWork(rawStore, procStore)) = 3
    /\ DOMAIN plan.d = {D_0115, D_0114}

\* the store without the keys under a prefix
WithoutPrefix(store, prefix) == {k \in store : ~StartsWith(k, prefix)}

\* the work-list planned, without fault, on stores that lack one date
PlanWithoutDate(date) ==
    get_unprocessed_files_dict(RAW_BUCKET,
        WithoutPrefix(rawStore, HISTORICAL_DT \o date \o <<"/">>),
        WithoutPrefix(procStore, PROCESSED_DT \o date \o <<"/">>),
        max_days, NoFault).d

\* C5: when the listing of one date's raw objects or of its processed
\* city/hour prefixes fails, the planner does not raise, that date is absent
\* from the work-list and the other dates are reconciled as if the failing
\* date did not exist.
C5_PerDateErrorIsolation ==
    (pc = "planned" /\ fault.op \in {"list_raw", "list_cities", "list_hours"}) =>
        /\ plan.kind = "dict"
        /\ fault.date \notin DOMAIN plan.d
        /\ DOMAIN plan.d = DOMAIN PlanWithoutDate(fault.date)
        /\ \A d \in DOMAIN plan.d : plan.d[d] = PlanWithoutDate(fault.date)[d]

\* the existence probe on processed/dt=<date>/ failed or found nothing
ProbeFailedOrEmpty(date) ==
    \/ fault.op = "head" /\ fault.date = date
    \/ ProcessedFolder(date) \notin procStore

\* the decodable .json raw files of a date
DecodableKeys(raw, date) ==
    {k \in raw : /\ StartsWith(k, HISTORICAL_DT \o date \o <<"/">>)
                 /\ EndsWith(k, DOT_JSON)
                 /\ DecodeRaw(k).kind = "unit"}

-----------------------------------------------------------------------------
(* Repeated invocations of lambda_handler against one raw bucket.           *)
(* history summarises the invocations that have returned:                   *)
(*   [kind |-> "history", runs, event (of the latest one), fetches_ok and   *)
(*    all_ok (of the latest one), store (raw keys at its return), units     *)
(*    (the (city_id, date, hour) written so far)]                           *)

\* largest number of invocations in a row
MaxRuns == 2

\* two city names with one city_id
CITIES_SAME_ID == <<"L","o","n","d","o","n",",","l","o","n","d","o","n">>

RerunEnvs ==
    {[kind |-> "env", api_key |-> TRUE, raw_bucket |-> TRUE,
      CITIES |-> EnvSetting(CITIES_TWO), MAX_BACKFILL_EVENTS |-> Unset],
     [kind |-> "env", api_key |-> TRUE, raw_bucket |-> TRUE,
      CITIES |-> EnvSetting(CITIES_SAME_ID), MAX_BACKFILL_EVENTS |-> EnvSetting(<<"1">>)]}

\* a scheduled run, single jobs with the hour as number and as text, and
\* backfill lists that overlap them
RerunEvents ==
    {[kind |-> "empty", now_date |-> D_0115, now_hour |-> 10],
     [kind |-> "single", date |-> D_0114, hour |-> IntVal(9)],
     [kind |-> "single", date |-> D_0114, hour |-> StrVal(<<"0", "9">>)],
     [kind |-> "jobs", jobs |-> <<Job(D_0115, IntVal(10)), Job(D_0114, IntVal(9))>>]}

\* the (city_id, date, hour) whose object the current invocation has written
OkUnits ==
    {<<CityId(fetched[k][1]), fetched[k][2], fetched[k][3]>> :
        k \in {i \in DOMAIN attempts : attempts[i].outcome = "ok"}}

EarlierRuns == IF history.kind = "none" THEN 0 ELSE history.runs

EarlierUnits == IF history.kind = "none" THEN {} ELSE history.units

\* the handler is invoked again after it returned: same environment and
\* bucket, any event
Invoke ==
    /\ hpc = "done"
    /\ EarlierRuns + 1 < MaxRuns
    /\ event' \in RerunEvents
    /\ history' = [kind |-> "history", runs |-> EarlierRuns + 1, event |-> event,
                   fetches_ok |-> \A k \in DOMAIN attempts :
                                      attempts[k].outcome # "fetch_failed",
                   all_ok |-> \A k \in DOMAIN attempts : attempts[k].outcome = "ok",
                   store |-> rawStore, units |-> EarlierUnits \cup OkUnits]
    /\ hpc' = "start" /\ config' = NoRec /\ jobs' = <<>>
    /\ job_index' = 0 /\ city_index' = 0 /\ job_success' = 0 /\ total_success' = 0
    /\ attempts' = <<>> /\ fetched' = <<>> /\ puts' = <<>> /\ warned' = FALSE
    /\ response' = NoRec
    /\ UNCHANGED env
    /\ UNCHANGED <<storeVars, plannerVars, codecVars, hourVars>>

RerunInit ==
    /\ env \in RerunEnvs
    /\ event \in RerunEvents
    /\ hpc = "start" /\ config = NoRec /\ jobs = <<>>
    /\ job_index = 0 /\ city_index = 0 /\ job_success = 0 /\ total_success = 0
    /\ attempts = <<>> /\ fetched = <<>> /\ puts = <<>> /\ warned = FALSE
    /\ response = NoRec /\ history = NoRec
    /\ IdleStores /\ IdlePlanner /\ IdleCodec /\ IdleHour

RerunNext == HandlerStart \/ ProcessCity \/ HandlerReturn \/ Invoke

SpecRerun == RerunInit /\ [][RerunNext]_vars

\* historical/dt=<date>/<city_id>_<two-digit hour>.json
TwoDigitHourKey(unit) ==
    HISTORICAL_DT \o unit[2] \o <<"/">> \o unit[1] \o <<"_">>
        \o <<Digits[(unit[3] \div 10) + 1], Digits[(unit[3] % 10) + 1]>> \o DOT_JSON

\* the raw store holds one object per written (city_id, date, hour), at the
\* key of that unit
OneObjectPerUnit ==
    /\ \A unit \in EarlierUnits \cup OkUnits : unit[3] \in 0..MAX_HOUR
    /\ rawStore = {TwoDigitHourKey(unit) : unit \in EarlierUnits \cup OkUnits}

\* the invocation that has just returned repeats the one before it
Rerun == hpc = "done" /\ history.kind = "history" /\ event = history.event

-----------------------------------------------------------------------------
(* The planner on raw date partitions as lambda_handler can create them:    *)
(* the date of an event is written into the key as it was given.            *)

\* 5 January, written without padding
D_1_5 == <<"2","0","2","4","-","1","-","5">>

RawKeyAnyDateUniverse ==
    {RawKey(LONDON, D_0115, 10), RawKey(LONDON, D_1_5, 3),
     RawKey(PARIS, D_0114, 9), RawKey(LONDON, D_0230, 10)}

PlannerAnyDateInit ==
    /\ rawStore \in SUBSET RawKeyAnyDateUniverse
    /\ procStore \in SUBSET {ProcessedFolder(D_0115),
                             ProcessedKey(D_0115, CityId(LONDON), 10)}
    /\ max_days \in 0..MaxDaysDrawn
    /\ fault = NoFault /\ pc = "start"
    /\ plan = NoRec /\ firstPlan = NoRec /\ bulkOut = NoRec
    /\ IdleIngest /\ IdleCodec /\ IdleHour

SpecPlannerAnyDate == PlannerAnyDateInit /\ [][PlannerNext]_vars

\* a calendar date written as four, two and two digits
IsYYYYMMDD(str) ==
    /\ Len(str) = 10 /\ str[5] = "-" /\ str[8] = "-"
    /\ \A i \in {1, 2, 3, 4, 6, 7, 9, 10} : str[i] \in DigitSet
    /\ DigitsValue(SubSeq(str, 6, 7)) \in 1..12
    /\ DigitsValue(SubSeq(str, 9, 10)) >= 1
    /\ DigitsValue(SubSeq(str, 9, 10)) <=
           DaysInMonth(DigitsValue(SubSeq(str, 1, 4)), DigitsValue(SubSeq(str, 6, 7)))

\* everything C13 states about the references of a work-list
RefsWellFormed(work) ==
    /\ \A d \in DOMAIN work :
          /\ \E k \in rawStore : StartsWith(k, HISTORICAL_DT \o d \o <<"/">>)
          /\ Len(work[d]) > 0
          /\ \A i \in DOMAIN work[d] :
                \E k \in rawStore :
                    /\ work[d][i] = S3_SCHEME \o RAW_BUCKET \o <<"/">> \o k
                    /\ StartsWith(k, HISTORICAL_DT \o d \o <<"/">>)
                    /\ EndsWith(k, DOT_JSON)
    /\ \A d1 \in DOMAIN work, d2 \in DOMAIN work :
          \A i \in DOMAIN work[d1], j \in DOMAIN work[d2] :
              work[d1][i] = work[d2][j] => (d1 = d2 /\ i = j)

\* C13: in every returned mapping each key is a valid YYYY-MM-DD date that
\* was listed as a raw date partition, each value is a non-empty list, every
\* reference is s3://<raw_bucket>/<key> with <key> under historical/dt=<that
\* date>/ and ending in .json, and no raw object is referenced twice.
C13_WorkListWellFormed ==
    (pc = "planned" /\ plan.kind = "dict") =>
        /\ \A d \in DOMAIN plan.d : IsYYYYMMDD(d)
        /\ RefsWellFormed(plan.d)

=============================================================================
